---------------------------- MODULE Spec2Model ----------------------------
(***************************************************************************)
(* A model of gladwell_engine.py, the Un:Curve weekly newsletter engine.   *)
(*                                                                         *)
(* The engine is one sequential pipeline (main): configuration check,      *)
(* headline search, LLM selection, history write, LLM generation, archive, *)
(* HTML build and webhook publish.  The module models                      *)
(*   - the webhook publisher (publish_to_webhook) step by step,            *)
(*   - the history store (headline_history.json) and its three operations, *)
(*   - the de-duplication / filtering pipeline of scout_headlines,         *)
(*   - the control flow and exits of main,                                 *)
(*   - the region splitter parse_newsletter on documents made of lexemes,  *)
(*   - markdown_to_html on texts made of symbols, applied once and twice,  *)
(*   - build_html_email, from the newsletter to the substituted template.  *)
(* Each part has its own specification over the shared variables; the      *)
(* variables a specification does not use stay at their initial value.     *)
(***************************************************************************)
EXTENDS Integers, Sequences, FiniteSets, TLC

VARIABLES
    \* --- process environment (os.getenv) ---
    apiKey,          \* DEEPSEEK_API_KEY
    webhookUrl,      \* MAKE_WEBHOOK_URL
    webhookUser,     \* MAKE_WEBHOOK_USER
    webhookPassword, \* MAKE_WEBHOOK_PASSWORD
    \* --- publish_to_webhook ---
    pubPc,           \* position inside publish_to_webhook
    posts,           \* x-make-apikey header value of every POST issued, in order
    responses,       \* what each POST came back with, in order
    pubResult,       \* "none" | "True" | "False" | "raised"
    \* --- history store: headline_history.json ---
    fileStatus,      \* "absent" | "corrupt" | "ok"
    used_urls,       \* the file's "used_urls" list
    headlines,       \* the file's "headlines" list
    recorded,        \* every record ever passed to save_headline_to_history
    lastOp,          \* the last History Store read and what it returned
    \* --- scout_headlines ---
    all_results,     \* concatenated search results
    num_results,     \* requested pool size
    scouted,         \* the value scout_headlines returned
    \* --- main ---
    pc,              \* position inside main
    exitCode,        \* -1 while running, else the process exit status
    queriesDone,     \* search queries issued so far by scout_headlines
    llmCalls,        \* completion requests issued, in order
    selection,       \* what braider_select returned
    runWrites,       \* history records written by this run
    selectReply,     \* what the selection completion request came back with
    exception,       \* the uncaught exception that ended main, or "none"
    archived,        \* save_draft has run
    \* --- parse_newsletter ---
    raw,             \* the raw document
    parsed,          \* the parsed document
    \* --- build_html_email ---
    template,        \* the email template load_email_template returns
    built,           \* the (subject, html) pair build_html_email returned
    \* --- markdown_to_html ---
    markdown,        \* a text given to markdown_to_html
    converted,       \* markdown_to_html of it
    reconverted      \* markdown_to_html of that

envVars     == <<apiKey, webhookUrl, webhookUser, webhookPassword>>
pubVars     == <<pubPc, posts, responses, pubResult>>
historyVars == <<fileStatus, used_urls, headlines, recorded, lastOp>>
scoutVars   == <<all_results, num_results, scouted>>
mainVars    == <<pc, exitCode, queriesDone, llmCalls, selection, runWrites,
                 selectReply, exception, archived>>
parseVars   == <<raw, parsed>>
htmlVars    == <<template, built, markdown, converted, reconverted>>
vars        == <<envVars, pubVars, historyVars, scoutVars, mainVars, parseVars,
                 htmlVars>>

(***************************************************************************)
(* Python values.                                                          *)
(***************************************************************************)
\* os.getenv of a variable that is not set
None == "<None>"

\* bool(v) of an optional string: None and "" are falsy
Truthy(v) == v # None /\ v # ""

\* a or b
PyOr(a, b) == IF Truthy(a) THEN a ELSE b

Min(a, b) == IF a <= b THEN a ELSE b

Max(a, b) == IF a >= b THEN a ELSE b

\* s[i:] for 0 <= i, 1-based: drop the first i elements
DropFirst(s, i) == SubSeq(s, i + 1, Len(s))

\* s[:i] for 0 <= i
TakeFirst(s, i) == SubSeq(s, 1, Min(i, Len(s)))

\* s[-c:]: Python turns a negative start -c into len(s)-c (clamped at 0);
\* -0 is 0, so s[-0:] is the whole list
LastSlice(s, c) == IF c = 0 THEN s ELSE DropFirst(s, Max(Len(s) - c, 0))

RECURSIVE SeqToSet(_)
SeqToSet(s) == IF s = <<>> THEN {} ELSE {Head(s)} \cup SeqToSet(Tail(s))

\* all sequences over S of length at most n
SeqsUpTo(S, n) == UNION {[1..k -> S] : k \in 0..n}


(***************************************************************************)
(* publish_to_webhook                                                      *)
(***************************************************************************)
\* What one requests.post call comes back with: a response carrying a status
\* code, or one of the exceptions of requests.exceptions.
Statuses == {200, 204, 401, 404, 500}

ExceptionKinds == {"Timeout", "ConnectionError"}

Response(status) == [kind |-> "response", status |-> status]

Raised(kind) == [kind |-> kind, status |-> 0]

PostOutcomes == {Response(s) : s \in Statuses} \cup {Raised(k) : k \in ExceptionKinds}

\* except requests.exceptions.Timeout: return False
\* except requests.exceptions.RequestException: return False
\* Timeout, ConnectionError and HTTPError are all RequestExceptions; anything
\* else would leave the function as an exception.
HandlerResult(kind) ==
    IF kind = "Timeout" THEN "False"
    ELSE IF kind \in {"ConnectionError", "HTTPError"} THEN "False"
    ELSE "raised"

\* mutant of ChooseApiKey: prefers the first credential
ApiKeyPreferUser(user, password) == PyOr(user, password)

\* api_key = webhook_password or webhook_user
ChooseApiKey(user, password) == PyOr(password, user)

\* alt_key = webhook_user if api_key == webhook_password else webhook_password
AltKey(api_key, user, password) == IF api_key = password THEN user ELSE password

\* response.status_code == 401 and webhook_user and webhook_password,
\* inside "if response.status_code != 200"
ShouldRetry(status, user, password) ==
    status # 200 /\ status = 401 /\ Truthy(user) /\ Truthy(password)

\* mutant of RaisesForStatus: only 5xx counts as an error
RaisesOnlyServerError(status) == status >= 500 /\ status < 600

\* response.raise_for_status() raises HTTPError for 4xx and 5xx
RaisesForStatus(status) == status >= 400 /\ status < 600

\* the header the next POST carries: x-make-apikey is set only for a truthy key
HeaderFor(key) == IF Truthy(key) THEN key ELSE None

\* if not MAKE_WEBHOOK_URL: return False; else build payload and headers
PublishEnter ==
    /\ pubPc = "enter"
    /\ IF ~Truthy(webhookUrl)
       THEN /\ pubPc' = "done"
            /\ pubResult' = "False"
       ELSE /\ pubPc' = "post1"
            /\ pubResult' = pubResult
    /\ UNCHANGED <<posts, responses>>

\* response = requests.post(..., headers=headers, timeout=60), first attempt
FirstPost ==
    /\ pubPc = "post1"
    /\ \E out \in PostOutcomes :
        /\ posts' = Append(posts, HeaderFor(ChooseApiKey(webhookUser, webhookPassword)))
        /\ responses' = Append(responses, out)
        /\ IF out.kind # "response"
           THEN /\ pubPc' = "done"
                /\ pubResult' = HandlerResult(out.kind)
           ELSE /\ pubPc' = "check1"
                /\ pubResult' = pubResult

\* the "if response.status_code != 200" block: decide on the alternate credential
CheckFirst ==
    /\ pubPc = "check1"
    /\ pubPc' = IF ShouldRetry(responses[1].status, webhookUser, webhookPassword)
                THEN "post2" ELSE "raise"
    /\ UNCHANGED <<posts, responses, pubResult>>

\* response = requests.post(...) with headers["x-make-apikey"] = alt_key
SecondPost ==
    /\ pubPc = "post2"
    /\ \E out \in PostOutcomes :
        /\ posts' = Append(posts,
                AltKey(ChooseApiKey(webhookUser, webhookPassword),
                       webhookUser, webhookPassword))
        /\ responses' = Append(responses, out)
        /\ IF out.kind # "response"
           THEN /\ pubPc' = "done"
                /\ pubResult' = HandlerResult(out.kind)
           ELSE /\ pubPc' = "raise"
                /\ pubResult' = pubResult

\* response.raise_for_status(); return True  (on the last response received)
RaiseForStatus ==
    /\ pubPc = "raise"
    /\ pubPc' = "done"
    /\ pubResult' = IF RaisesForStatus(responses[Len(responses)].status)
                    THEN HandlerResult("HTTPError")
                    ELSE "True"
    /\ UNCHANGED <<posts, responses>>


(***************************************************************************)
(* History Store: headline_history.json                                    *)
(*                                                                         *)
(* A history record is {url, title, topic, date}; the date is              *)
(* datetime.now() and no operation reads it, so records carry url, title   *)
(* and topic.  The file is absent, unreadable as JSON ("corrupt"), or an   *)
(* object {"used_urls": [...], "headlines": [...]} ("ok").                 *)
(***************************************************************************)
\* full_history[-100:]
HISTORY_CAP == 100

HistoryRecord(url, title, topic) == [url |-> url, title |-> title, topic |-> topic]

\* load_headline_history: [] when the file is absent or json.load fails,
\* else data.get("used_urls", [])
LoadHeadlineHistory(status, urls) ==
    IF status = "absent" THEN <<>>
    ELSE IF status = "corrupt" THEN <<>>
    ELSE urls

\* the list save_headline_to_history starts from: [] unless the file exists
\* and loads, then data.get("headlines", [])
StoredHeadlines(status, hl) == IF status = "ok" THEN hl ELSE <<>>

\* mutant of CapHistory: keeps the oldest entries, full_history[:100]
CapKeepsOldest(full) == TakeFirst(full, HISTORY_CAP)

\* full_history = full_history[-100:]
CapHistory(full) == LastSlice(full, HISTORY_CAP)

\* history = [h["url"] for h in full_history]
UrlsOf(full) == [i \in 1..Len(full) |-> full[i].url]

\* the "headlines" list save_headline_to_history writes
SavedHeadlines(status, hl, rec) == CapHistory(Append(StoredHeadlines(status, hl), rec))

\* mutant of FilterUsedHeadlines: the membership test inverted
FilterKeepsUsed(hs, used) ==
    LET Keep(h) == h.url \in SeqToSet(used) IN SelectSeq(hs, Keep)

\* filter_used_headlines, given what load_headline_history returned:
\* keep h when h.get("url") not in used_urls
FilterUsedHeadlines(hs, used) ==
    LET Keep(h) == h.url \notin SeqToSet(used) IN SelectSeq(hs, Keep)

\* get_recent_topics(count):
\* [h.get("topic", "") for h in headlines[-count:] if h.get("topic")]
GetRecentTopics(status, hl, count) ==
    IF status # "ok" THEN <<>>
    ELSE LET recent == LastSlice(hl, count)
             HasTopic(h) == Truthy(h.topic)
             kept == SelectSeq(recent, HasTopic)
         IN [i \in 1..Len(kept) |-> kept[i].topic]

\* ---- the History Store driven on its own ----
MaxSaves == 150

MaxFree == 2

MaxCount == 3

HistUrls == {"u1", "u2"}

HistTopics == {"", "econ"}

HistRecords == {HistoryRecord(u, "t", tp) : u \in HistUrls, tp \in HistTopics}

Candidate(title, url) == [title |-> title, body |-> "", url |-> url, source |-> ""]

FilterInputs ==
    {<<Candidate("a", "u1")>>, <<Candidate("b", "u2")>>,
     <<Candidate("a", "u1"), Candidate("b", "u2")>>, <<Candidate("c", "u3")>>}

NoOp == [op |-> "none"]

\* save_headline_to_history(url, title, topic).  The caller's records are free
\* for the first MaxFree calls and then repeat the last one, which keeps the
\* run to MaxSaves records within reach.
Save(rec) ==
    /\ Len(recorded) < MaxSaves
    /\ IF Len(recorded) < MaxFree THEN TRUE ELSE rec = recorded[Len(recorded)]
    /\ headlines' = SavedHeadlines(fileStatus, headlines, rec)
    /\ used_urls' = UrlsOf(headlines')
    /\ fileStatus' = "ok"
    /\ recorded' = Append(recorded, rec)
    /\ lastOp' = NoOp

HistSave == \E rec \in HistRecords : Save(rec)

HistLoad ==
    /\ lastOp' = [op |-> "load", result |-> LoadHeadlineHistory(fileStatus, used_urls)]
    /\ UNCHANGED <<fileStatus, used_urls, headlines, recorded>>

HistFilter ==
    /\ \E hs \in FilterInputs :
        lastOp' = [op |-> "filter", arg |-> hs,
                   result |-> FilterUsedHeadlines(hs,
                                 LoadHeadlineHistory(fileStatus, used_urls))]
    /\ UNCHANGED <<fileStatus, used_urls, headlines, recorded>>

HistTopicsRead ==
    /\ \E n \in 0..MaxCount :
        lastOp' = [op |-> "topics", arg |-> n,
                   result |-> GetRecentTopics(fileStatus, headlines, n)]
    /\ UNCHANGED <<fileStatus, used_urls, headlines, recorded>>


(***************************************************************************)
(* scout_headlines: de-duplicate, filter against the history, truncate     *)
(*                                                                         *)
(* A search result is what DDGS.news returns: a dict that always has       *)
(* title, body, url and source, among other keys (date stands for them).   *)
(***************************************************************************)
SearchResult(title, url) ==
    [title |-> title, body |-> "", url |-> url, source |-> "", date |-> "d"]

\* the dict appended to unique_results: the four fields read with r.get
Projected(r) == [title |-> r.title, body |-> r.body, url |-> r.url, source |-> r.source]

\* for r in all_results: if r.get("title") not in seen_titles: add, append
RECURSIVE DedupLoop(_, _, _)
DedupLoop(rs, seen_titles, unique_results) ==
    IF rs = <<>> THEN unique_results
    ELSE LET r == Head(rs) IN
         IF r.title \notin seen_titles
         THEN DedupLoop(Tail(rs), seen_titles \cup {r.title},
                        Append(unique_results, Projected(r)))
         ELSE DedupLoop(Tail(rs), seen_titles, unique_results)

DedupByTitle(rs) == DedupLoop(rs, {}, <<>>)

\* mutant of ScoutHeadlines: filters against the history before de-duplicating
ScoutFilterFirst(rs, status, urls, n) ==
    TakeFirst(DedupByTitle(FilterUsedHeadlines(rs, LoadHeadlineHistory(status, urls))), n)

\* scout_headlines after the search loop, lines 167-186:
\* unique_results = dedup; filter_used_headlines(unique_results); [:num_results]
ScoutHeadlines(rs, status, urls, n) ==
    TakeFirst(FilterUsedHeadlines(DedupByTitle(rs), LoadHeadlineHistory(status, urls)), n)

\* ---- scout_headlines driven on its own ----
MaxResults == 4

MaxUsed == 1

MaxPool == 2

ScoutTitles == {"t1", "t2", "t3"}

ScoutUrls == {"u1", "u2"}

ScoutResults == {SearchResult(t, u) : t \in ScoutTitles, u \in ScoutUrls}

\* the headlines list of a history file whose used_urls list is urls
HeadlinesFor(urls) == [i \in 1..Len(urls) |-> HistoryRecord(urls[i], "t", "")]

Scout ==
    /\ pc = "scout"
    /\ scouted' = ScoutHeadlines(all_results, fileStatus, used_urls, num_results)
    /\ pc' = "scouted"

(***************************************************************************)
(* Quiescent values of each group of variables.                            *)
(***************************************************************************)
EnvDefault ==
    /\ apiKey = "sk-key"
    /\ webhookUrl = "https://hook"
    /\ webhookUser = None
    /\ webhookPassword = None

PubDefault ==
    /\ pubPc = "idle"
    /\ posts = <<>>
    /\ responses = <<>>
    /\ pubResult = "none"

HistoryDefault ==
    /\ fileStatus = "absent"
    /\ used_urls = <<>>
    /\ headlines = <<>>
    /\ recorded = <<>>
    /\ lastOp = NoOp

ScoutDefault ==
    /\ all_results = <<>>
    /\ num_results = 0
    /\ scouted = <<>>

NoSelection == [kind |-> "none"]

NoReply == [kind |-> "none"]

MainDefault ==
    /\ pc = "idle"
    /\ exitCode = -1
    /\ queriesDone = 0
    /\ llmCalls = <<>>
    /\ selection = NoSelection
    /\ runWrites = <<>>
    /\ selectReply = NoReply
    /\ exception = "none"
    /\ archived = FALSE

NoParse == [subject |-> <<>>, content |-> <<>>, footnotes |-> <<>>, references |-> <<>>]

ParseDefault ==
    /\ raw = <<>>
    /\ parsed = NoParse

NoEmail == [subject |-> <<>>, html |-> <<>>]

HtmlDefault ==
    /\ template = <<>>
    /\ built = NoEmail
    /\ markdown = <<>>
    /\ converted = <<>>
    /\ reconverted = <<>>

(***************************************************************************)
(* SpecPublish: one call of publish_to_webhook under every configuration.  *)
(***************************************************************************)
UrlValues == {None, "", "https://hook"}

CredValues == {None, "", "keyA", "keyB"}

InitPublish ==
    /\ apiKey = "sk-key"
    /\ webhookUrl \in UrlValues
    /\ webhookUser \in CredValues
    /\ webhookPassword \in CredValues
    /\ pubPc = "enter"
    /\ posts = <<>>
    /\ responses = <<>>
    /\ pubResult = "none"
    /\ HistoryDefault /\ ScoutDefault /\ MainDefault /\ ParseDefault /\ HtmlDefault

notPub == <<envVars, historyVars, scoutVars, mainVars, parseVars, htmlVars>>

NextPublish ==
    \/ PublishEnter /\ UNCHANGED notPub
    \/ FirstPost /\ UNCHANGED notPub
    \/ CheckFirst /\ UNCHANGED notPub
    \/ SecondPost /\ UNCHANGED notPub
    \/ RaiseForStatus /\ UNCHANGED notPub

SpecPublish == InitPublish /\ [][NextPublish]_vars

(***************************************************************************)
(* SpecHistory: the History Store from an absent or corrupt file.          *)
(***************************************************************************)
InitHistory ==
    /\ fileStatus \in {"absent", "corrupt"}
    /\ used_urls = <<>>
    /\ headlines = <<>>
    /\ recorded = <<>>
    /\ lastOp = NoOp
    /\ EnvDefault /\ PubDefault /\ ScoutDefault /\ MainDefault /\ ParseDefault /\ HtmlDefault

notHistory == <<envVars, pubVars, scoutVars, mainVars, parseVars, htmlVars>>

NextHistory ==
    \/ HistSave /\ UNCHANGED notHistory
    \/ HistLoad /\ UNCHANGED notHistory
    \/ HistFilter /\ UNCHANGED notHistory
    \/ HistTopicsRead /\ UNCHANGED notHistory

SpecHistory == InitHistory /\ [][NextHistory]_vars

(***************************************************************************)
(* SpecScout: scout_headlines applied to every bounded input.              *)
(***************************************************************************)
InitScout ==
    /\ all_results \in SeqsUpTo(ScoutResults, MaxResults)
    /\ num_results \in 0..MaxPool
    /\ scouted = <<>>
    /\ fileStatus \in {"absent", "ok"}
    /\ used_urls \in SeqsUpTo(ScoutUrls, MaxUsed)
    /\ fileStatus = "absent" => used_urls = <<>>
    /\ headlines = HeadlinesFor(used_urls)
    /\ recorded = <<>>
    /\ lastOp = NoOp
    /\ pc = "scout"
    /\ exitCode = -1
    /\ queriesDone = 0
    /\ llmCalls = <<>>
    /\ selection = NoSelection
    /\ runWrites = <<>>
    /\ selectReply = NoReply
    /\ exception = "none"
    /\ archived = FALSE
    /\ EnvDefault /\ PubDefault /\ ParseDefault /\ HtmlDefault

NextScout ==
    /\ Scout
    /\ UNCHANGED <<envVars, pubVars, historyVars, all_results, num_results,
                   exitCode, queriesDone, llmCalls, selection, runWrites,
                   selectReply, exception, archived, parseVars, htmlVars>>

SpecScout == InitScout /\ [][NextScout]_vars


(***************************************************************************)
(* Properties of publish_to_webhook (SpecPublish)                          *)
(***************************************************************************)
BothCredentials == Truthy(webhookUser) /\ Truthy(webhookPassword)

\* an HTTP response that is not an error response (status below 400)
IsSuccessResponse(out) == out.kind = "response" /\ out.status < 400

\* an HTTP response with a client or server error status
IsErrorResponse(out) == out.kind = "response" /\ out.status >= 400

\* C1: with both credentials set the first POST carries MAKE_WEBHOOK_PASSWORD;
\* a second POST is made only after a first 401 with both credentials set, it
\* carries MAKE_WEBHOOK_USER, and then publish returns True exactly when the
\* second response is a success; no call issues more than two POSTs.
C1_CredentialFallback ==
    /\ Len(posts) <= 2
    /\ Len(responses) = Len(posts)
    /\ (BothCredentials /\ Len(posts) >= 1) => posts[1] = webhookPassword
    /\ Len(posts) = 2 =>
          /\ BothCredentials
          /\ responses[1] = Response(401)
          /\ posts[2] = webhookUser
    /\ (pubPc = "done" /\ BothCredentials /\ Len(responses) >= 1
            /\ responses[1] = Response(401)) =>
          /\ Len(posts) = 2
          /\ pubResult = "True" <=> IsSuccessResponse(responses[2])
          /\ pubResult \in {"True", "False"}

\* C1 witness: the primary credential got 401, the other one got 200, publish
\* returned True after exactly two POSTs
C1_Witness ==
    /\ pubPc = "done"
    /\ webhookUser = "keyA" /\ webhookPassword = "keyB"
    /\ posts = <<"keyB", "keyA">>
    /\ responses = <<Response(401), Response(200)>>
    /\ pubResult = "True"

\* C2 as claimed: every first status other than 200 and 401, and every timeout
\* or network failure on either POST, ends the call without a retry, with
\* result False and no exception raised to the caller.
C2_AnyNon200IsFailure ==
    (pubPc = "done" /\ Len(responses) >= 1) =>
        /\ (responses[1].kind = "response" /\ responses[1].status \notin {200, 401}) =>
              (Len(posts) = 1 /\ pubResult = "False")
        /\ responses[Len(responses)].kind # "response" => pubResult = "False"
        /\ pubResult # "raised"

\* C2 amended: every first status that is an HTTP error (4xx, 5xx) other than
\* 401, and every timeout or network failure on either POST, ends the call
\* without a retry, with result False and no exception raised; a first status
\* that is neither 200 nor an error (e.g. 204) is not retried and returns True.
C2_ErrorStatusIsFailure ==
    /\ \A i \in 1..Len(responses) :
          responses[i].kind # "response" => (i = Len(responses) /\ pubPc = "done")
    /\ (pubPc = "done" /\ Len(responses) >= 1) =>
        /\ (IsErrorResponse(responses[1]) /\ responses[1].status # 401) =>
              (Len(posts) = 1 /\ pubResult = "False")
        /\ (IsSuccessResponse(responses[1])) =>
              (Len(posts) = 1 /\ pubResult = "True")
        /\ responses[Len(responses)].kind # "response" => pubResult = "False"
        /\ pubResult # "raised"

\* C2 witness: a first response 404 ended the call with False after one POST
C2_Witness ==
    /\ pubPc = "done"
    /\ responses = <<Response(404)>>
    /\ Len(posts) = 1
    /\ pubResult = "False"


(***************************************************************************)
(* Properties of the History Store (SpecHistory)                           *)
(***************************************************************************)
\* the most recent min(k, cap) of the k records passed to save so far
MostRecent(cap) ==
    SubSeq(recorded, Len(recorded) - Min(Len(recorded), cap) + 1, Len(recorded))

\* the URLs of the records of a sequence, as a set
UrlSet(recs) == {recs[i].url : i \in 1..Len(recs)}

\* C3: after k saves from an absent (or unreadable) file the stored list has
\* length min(k, 100), holds exactly the most recent min(k, 100) records in
\* insertion order, and the stored used-URL list is the URLs of those records,
\* so the distinct used URLs are the distinct URLs among them.
C3_HistoryCapped ==
    /\ Len(recorded) = 0 => fileStatus \in {"absent", "corrupt"}
    /\ Len(recorded) >= 1 =>
          /\ fileStatus = "ok"
          /\ Len(headlines) = Min(Len(recorded), 100)
          /\ headlines = MostRecent(100)
          /\ Len(used_urls) = Len(headlines)
          /\ \A i \in 1..Len(headlines) : used_urls[i] = headlines[i].url
          /\ Cardinality(SeqToSet(used_urls)) = Cardinality(UrlSet(MostRecent(100)))

\* C3 witness: 150 records were saved, the first two with different URLs, and
\* the stored list holds the last 100 of them
C3_Witness ==
    /\ Len(recorded) = 150
    /\ recorded[1].url # recorded[2].url
    /\ Len(headlines) = 100
    /\ headlines[1] = recorded[51]

\* C4 as claimed: on an intact store load_headline_history returns every URL
\* ever passed to save, and filter_used_headlines removes every candidate with
\* such a URL; on an absent or corrupt store the result is empty.
C4_AllUrlsEverRecorded ==
    /\ lastOp.op = "load" =>
          IF fileStatus = "ok"
          THEN UrlSet(recorded) \subseteq SeqToSet(lastOp.result)
          ELSE lastOp.result = <<>>
    /\ (lastOp.op = "filter" /\ fileStatus = "ok") =>
          \A i \in 1..Len(lastOp.result) : lastOp.result[i].url \notin UrlSet(recorded)

\* C4 amended: on an intact store load_headline_history returns the URLs of the
\* most recent min(k, 100) records and no others, and filter_used_headlines
\* keeps, in order, exactly the candidates whose URL is not among those; on an
\* absent or corrupt store the result is empty (and the filter keeps all).
C4_UrlsOfCappedRecords ==
    /\ lastOp.op = "load" =>
          IF fileStatus = "ok"
          THEN SeqToSet(lastOp.result) = UrlSet(MostRecent(100))
          ELSE lastOp.result = <<>>
    /\ lastOp.op = "filter" =>
          LET usedNow == IF fileStatus = "ok" THEN UrlSet(MostRecent(100)) ELSE {}
              keptIdx == {i \in 1..Len(lastOp.arg) : lastOp.arg[i].url \notin usedNow}
          IN /\ Len(lastOp.result) = Cardinality(keptIdx)
             /\ \A j \in 1..Len(lastOp.result) :
                   \E i \in keptIdx :
                       /\ lastOp.result[j] = lastOp.arg[i]
                       /\ Cardinality({k \in keptIdx : k <= i}) = j

\* C4 witness: more than 100 records were saved, a URL recorded at the start
\* is no longer stored, and the filter let a candidate with that URL through
\* while removing one whose URL is still stored
C4_Witness ==
    /\ lastOp.op = "filter"
    /\ Len(recorded) > 100
    /\ Len(lastOp.arg) = 2
    /\ Len(lastOp.result) = 1
    /\ lastOp.result[1].url = recorded[1].url

\* C8 as claimed: get_recent_topics(n) returns the non-empty topics of the last
\* min(n, number of records) records, oldest first, so never more than n topics.
C8_RecentTopics ==
    lastOp.op = "topics" =>
        LET n == lastOp.arg
            stored == IF fileStatus = "ok" THEN headlines ELSE <<>>
            m == Min(n, Len(stored))
            lastM == SubSeq(stored, Len(stored) - m + 1, Len(stored))
            idx == {i \in 1..m : lastM[i].topic # ""}
        IN /\ Len(lastOp.result) <= n
           /\ Len(lastOp.result) = Cardinality(idx)
           /\ \A j \in 1..Len(lastOp.result) :
                 \E i \in idx :
                     /\ lastOp.result[j] = lastM[i].topic
                     /\ Cardinality({k \in idx : k <= i}) = j

(***************************************************************************)
(* Properties of scout_headlines (SpecScout)                               *)
(***************************************************************************)
\* indices of the results that are the first with their title
FirstSeen(rs) == {i \in 1..Len(rs) : \A j \in 1..(i - 1) : rs[j].title # rs[i].title}

\* indices of the first-seen results whose URL the history does not hold
Retained(rs, used) == {i \in FirstSeen(rs) : rs[i].url \notin used}

\* the j-th smallest element of a set of indices
NthOf(S, j) == CHOOSE i \in S : Cardinality({k \in S : k <= i}) = j

\* C5: scout_headlines returns, in the order of the search results, the first
\* min(n, .) of the results that are first-seen for their title and whose URL
\* is not used: no two share a title, none has a used URL, at most n.
C5_ScoutPipeline ==
    pc = "scouted" =>
        LET used == IF fileStatus = "ok" THEN SeqToSet(used_urls) ELSE {}
            keep == Retained(all_results, used)
        IN /\ Len(scouted) = Min(num_results, Cardinality(keep))
           /\ \A j \in 1..Len(scouted) :
                 scouted[j] = Projected(all_results[NthOf(keep, j)])
           /\ \A j, k \in 1..Len(scouted) :
                 j # k => scouted[j].title # scouted[k].title
           /\ \A j \in 1..Len(scouted) : scouted[j].url \notin used
           /\ Len(scouted) <= num_results

\* C5 witness: the first result of a title has a used URL, a later result with
\* the same title and a fresh URL is dropped as a duplicate, and two further
\* first-seen results compete for a pool of one
C5_Witness ==
    /\ pc = "scouted"
    /\ fileStatus = "ok" /\ used_urls = <<"u1">>
    /\ all_results = <<SearchResult("t1", "u1"), SearchResult("t1", "u2"),
                       SearchResult("t2", "u2"), SearchResult("t3", "u2")>>
    /\ num_results = 1
    /\ scouted = <<Candidate("t2", "u2")>>


(***************************************************************************)
(* main: the five-phase pipeline                                           *)
(***************************************************************************)
\* queries = random.sample(all_queries, min(5, len(all_queries)))
NUM_QUERIES == 5

\* headlines = scout_headlines(num_results=10)
POOL_SIZE == 10

\* a key a dict does not have
Absent == "<absent>"

\* d.get(key, default), given d's entry for the key
DictGet(entry, default) == IF entry = Absent THEN default ELSE entry

SelectionDict(url, title, topic) ==
    [kind |-> "dict", headline_url |-> url, headline_title |-> title, topic_area |-> topic]

\* What the selection completion request can come back with:
\*   error       client.chat.completions.create raises
\*   not_json    text that json.loads rejects (JSONDecodeError)
\*   non_object  text that json.loads accepts but that is no JSON object
\*               (a list, a string, a number, null)
\*   object      a JSON object, with or without each of the expected keys
SelectReplies(hs) ==
    {[kind |-> "error"], [kind |-> "not_json"], [kind |-> "non_object"]}
    \cup {[kind |-> "object", dict |-> SelectionDict(hs[i].url, hs[i].title, tp)] :
             i \in 1..Len(hs), tp \in {Absent, "econ"}}
    \cup {[kind |-> "object", dict |-> SelectionDict(Absent, Absent, Absent)]}

\* sys.exit(code), or the interpreter ending on an uncaught exception (status 1)
Exit(code, exc) ==
    /\ pc' = "exited"
    /\ exitCode' = code
    /\ exception' = exc

\* mutant of MainCheckConfig: the MAKE_WEBHOOK_URL check is missing
MainCheckConfigKeyOnly ==
    /\ pc = "start"
    /\ IF ~Truthy(apiKey)
       THEN Exit(1, "none")
       ELSE pc' = "load_prompt" /\ UNCHANGED <<exitCode, exception>>
    /\ UNCHANGED <<queriesDone, llmCalls, selection, runWrites, selectReply, archived>>
    /\ UNCHANGED <<envVars, pubVars, historyVars, scoutVars, parseVars, htmlVars>>

\* if not DEEPSEEK_API_KEY: sys.exit(1); if not MAKE_WEBHOOK_URL: sys.exit(1)
MainCheckConfig ==
    /\ pc = "start"
    /\ IF ~Truthy(apiKey) \/ ~Truthy(webhookUrl)
       THEN Exit(1, "none")
       ELSE pc' = "load_prompt" /\ UNCHANGED <<exitCode, exception>>
    /\ UNCHANGED <<queriesDone, llmCalls, selection, runWrites, selectReply, archived>>
    /\ UNCHANGED <<envVars, pubVars, historyVars, scoutVars, parseVars, htmlVars>>

\* system_prompt = load_system_prompt(); client = OpenAI(...): the prompt file
\* ships with the program and constructing the client makes no request
MainLoadPrompt ==
    /\ pc = "load_prompt"
    /\ pc' = "search"
    /\ UNCHANGED <<exitCode, exception>>
    /\ UNCHANGED <<queriesDone, llmCalls, selection, runWrites, selectReply, archived>>
    /\ UNCHANGED <<envVars, pubVars, historyVars, scoutVars, parseVars, htmlVars>>

\* ---- bounds of the pipeline's inputs ----
MaxQueryResults == 1

MainResults == {SearchResult("t1", "u1"), SearchResult("t2", "u2")}

QueryOutcomes ==
    {[ok |-> FALSE, results |-> <<>>]}
    \cup {[ok |-> TRUE, results |-> rs] : rs \in SeqsUpTo(MainResults, MaxQueryResults)}

\* one turn of scout_headlines' search loop: ddgs.news(query, max_results=4);
\* a failing query is logged and skipped
MainSearchQuery ==
    /\ pc = "search"
    /\ queriesDone < NUM_QUERIES
    /\ \E out \in QueryOutcomes :
          all_results' = IF out.ok THEN all_results \o out.results ELSE all_results
    /\ queriesDone' = queriesDone + 1
    /\ UNCHANGED <<pc, exitCode, exception, llmCalls, selection, runWrites,
                   selectReply, archived, num_results, scouted>>
    /\ UNCHANGED <<envVars, pubVars, historyVars, parseVars, htmlVars>>

\* the rest of scout_headlines, and main's "if not headlines: sys.exit(1)"
MainScoutFinish ==
    /\ pc = "search"
    /\ queriesDone = NUM_QUERIES
    /\ num_results' = POOL_SIZE
    /\ scouted' = ScoutHeadlines(all_results, fileStatus, used_urls, POOL_SIZE)
    /\ all_results' = <<>>
    /\ IF scouted' = <<>>
       THEN Exit(1, "none")
       ELSE pc' = "select" /\ UNCHANGED <<exitCode, exception>>
    /\ UNCHANGED <<queriesDone, llmCalls, selection, runWrites, selectReply, archived>>
    /\ UNCHANGED <<envVars, pubVars, historyVars, parseVars, htmlVars>>

\* braider_select: one completion request, then
\*   try: result = json.loads(content); print(result.get(...)); return result
\*   except json.JSONDecodeError: return {"raw_response": content}
\* result.get on a value that is no dict raises AttributeError inside the try;
\* the handler names JSONDecodeError only.
BraiderReturn(reply) ==
    IF reply.kind = "object" THEN reply.dict
    ELSE SelectionDict(Absent, Absent, Absent)

BraiderRaises(reply) ==
    IF reply.kind = "error" THEN "APIError"
    ELSE IF reply.kind = "non_object" THEN "AttributeError"
    ELSE "none"

MainSelect ==
    /\ pc = "select"
    /\ \E reply \in SelectReplies(scouted) :
          /\ selectReply' = reply
          /\ IF BraiderRaises(reply) # "none"
             THEN Exit(1, BraiderRaises(reply)) /\ selection' = selection
             ELSE /\ selection' = BraiderReturn(reply)
                  /\ pc' = "record"
                  /\ UNCHANGED <<exitCode, exception>>
    /\ llmCalls' = Append(llmCalls, "select")
    /\ UNCHANGED <<queriesDone, runWrites, archived>>
    /\ UNCHANGED <<envVars, pubVars, historyVars, scoutVars, parseVars, htmlVars>>

\* the record main passes: selection.get('headline_url', ''), ... ('topic_area', '')
RecordOf(sel) ==
    HistoryRecord(DictGet(sel.headline_url, ""), DictGet(sel.headline_title, ""),
                  DictGet(sel.topic_area, ""))

\* save_headline_to_history(...) as called by main
MainRecord ==
    /\ pc = "record"
    /\ headlines' = SavedHeadlines(fileStatus, headlines, RecordOf(selection))
    /\ used_urls' = UrlsOf(headlines')
    /\ fileStatus' = "ok"
    /\ recorded' = Append(recorded, RecordOf(selection))
    /\ runWrites' = Append(runWrites, RecordOf(selection))
    /\ pc' = "generate"
    /\ UNCHANGED <<lastOp, exitCode, exception, queriesDone, llmCalls, selection,
                   selectReply, archived>>
    /\ UNCHANGED <<envVars, pubVars, scoutVars, parseVars, htmlVars>>

\* writer_generate: one completion request; an error is not caught
MainGenerate ==
    /\ pc = "generate"
    /\ llmCalls' = Append(llmCalls, "generate")
    /\ \E answered \in BOOLEAN :
          IF answered
          THEN pc' = "archive" /\ UNCHANGED <<exitCode, exception>>
          ELSE Exit(1, "APIError")
    /\ UNCHANGED <<queriesDone, selection, runWrites, selectReply, archived>>
    /\ UNCHANGED <<envVars, pubVars, historyVars, scoutVars, parseVars, htmlVars>>

\* draft_path = save_draft(newsletter, selection)
MainSaveDraft ==
    /\ pc = "archive"
    /\ archived' = TRUE
    /\ pc' = "build"
    /\ UNCHANGED <<exitCode, exception, queriesDone, llmCalls, selection, runWrites,
                   selectReply>>
    /\ UNCHANGED <<envVars, pubVars, historyVars, scoutVars, parseVars, htmlVars>>

\* subject, html = build_html_email(newsletter), a pure transformation of the
\* generated text and the shipped template; then the call of publish_to_webhook
MainBuildHtml ==
    /\ pc = "build"
    /\ pc' = "publish"
    /\ pubPc' = "enter"
    /\ UNCHANGED <<exitCode, exception>>
    /\ UNCHANGED <<posts, responses, pubResult>>
    /\ UNCHANGED <<queriesDone, llmCalls, selection, runWrites, selectReply, archived>>
    /\ UNCHANGED <<envVars, historyVars, scoutVars, parseVars, htmlVars>>

\* if success: (banner; main returns, status 0)  else: sys.exit(1)
MainFinish ==
    /\ pc = "publish"
    /\ pubPc = "done"
    /\ IF pubResult = "True" THEN Exit(0, "none") ELSE Exit(1, "none")
    /\ UNCHANGED <<queriesDone, llmCalls, selection, runWrites, selectReply, archived>>
    /\ UNCHANGED <<envVars, pubVars, historyVars, scoutVars, parseVars, htmlVars>>

(***************************************************************************)
(* SpecMain: one run of main under every configuration, history and        *)
(* collaborator behaviour.                                                 *)
(***************************************************************************)
KeyValues == {None, "", "sk-key"}

InitMain ==
    /\ apiKey \in KeyValues
    /\ webhookUrl \in UrlValues
    /\ webhookUser \in {None, "keyA"}
    /\ webhookPassword \in {None, "keyB"}
    /\ PubDefault
    /\ fileStatus \in {"absent", "ok"}
    /\ used_urls = IF fileStatus = "ok" THEN <<"u1">> ELSE <<>>
    /\ headlines = HeadlinesFor(used_urls)
    /\ recorded = headlines
    /\ lastOp = NoOp
    /\ ScoutDefault
    /\ pc = "start"
    /\ exitCode = -1
    /\ queriesDone = 0
    /\ llmCalls = <<>>
    /\ selection = NoSelection
    /\ runWrites = <<>>
    /\ selectReply = NoReply
    /\ exception = "none"
    /\ archived = FALSE
    /\ ParseDefault /\ HtmlDefault

notPubInMain == <<envVars, historyVars, scoutVars, mainVars, parseVars, htmlVars>>

NextMain ==
    \/ MainCheckConfig
    \/ MainLoadPrompt
    \/ MainSearchQuery
    \/ MainScoutFinish
    \/ MainSelect
    \/ MainRecord
    \/ MainGenerate
    \/ MainSaveDraft
    \/ MainBuildHtml
    \/ PublishEnter /\ UNCHANGED notPubInMain
    \/ FirstPost /\ UNCHANGED notPubInMain
    \/ CheckFirst /\ UNCHANGED notPubInMain
    \/ SecondPost /\ UNCHANGED notPubInMain
    \/ RaiseForStatus /\ UNCHANGED notPubInMain
    \/ MainFinish

SpecMain == InitMain /\ [][NextMain]_vars


(***************************************************************************)
(* Properties of main (SpecMain)                                           *)
(***************************************************************************)
\* the selection completion request came back with text
SelectionReturned == selectReply.kind \in {"not_json", "non_object", "object"}

\* the record the claim expects: the reply's fields, "" for each unknown one
ExpectedRecord ==
    IF selectReply.kind = "object" THEN RecordOf(selectReply.dict)
    ELSE HistoryRecord("", "", "")

\* C6 as claimed: in every run in which the selection request returns, parsed
\* as JSON or not, exactly one history record carrying the selection's
\* url/title/topic ("" when unknown) is written, and it is written before the
\* generation request is issued.
C6_RecordBeforeGeneration ==
    /\ Len(runWrites) <= 1
    /\ (\E i \in 1..Len(llmCalls) : llmCalls[i] = "generate") =>
          (Len(runWrites) = 1 /\ runWrites[1] = ExpectedRecord)
    /\ (pc = "exited" /\ SelectionReturned) =>
          (Len(runWrites) = 1 /\ runWrites[1] = ExpectedRecord)

ConfigMissing == ~Truthy(apiKey) \/ ~Truthy(webhookUrl)

NoNetworkCall == queriesDone = 0 /\ llmCalls = <<>> /\ posts = <<>>

\* exit 1 on absent configuration, before any network call
ExitConfig == exitCode = 1 /\ exception = "none" /\ ConfigMissing /\ NoNetworkCall

\* exit 1 when the search phase yields no usable headline
ExitNoHeadlines ==
    /\ exitCode = 1 /\ exception = "none"
    /\ queriesDone = NUM_QUERIES /\ scouted = <<>>
    /\ llmCalls = <<>> /\ runWrites = <<>> /\ posts = <<>>

\* exit 1 when publish_to_webhook returned False
ExitPublishFailed ==
    exitCode = 1 /\ exception = "none" /\ pubPc = "done" /\ pubResult = "False"

\* exit 0 after search, selection, generation, archive and a successful publish
ExitSuccess ==
    /\ exitCode = 0 /\ exception = "none"
    /\ queriesDone = NUM_QUERIES /\ scouted # <<>>
    /\ llmCalls = <<"select", "generate">>
    /\ Len(runWrites) = 1
    /\ archived
    /\ pubPc = "done" /\ pubResult = "True"

\* exit 1 on an uncaught exception, raised after the configuration check and
\* before any webhook POST
ExitException ==
    /\ exitCode = 1 /\ exception # "none"
    /\ ~ConfigMissing
    /\ posts = <<>> /\ pubResult = "none"

\* C7 as claimed: every run of main ends in one of four outcomes: exit 1 on
\* absent configuration with no network call made; exit 1 on zero headlines
\* with no LLM call, history write or POST; exit 1 when publish returned False;
\* exit 0 only after everything completed and the publish succeeded.
C7_FourOutcomes ==
    pc = "exited" => (ExitConfig \/ ExitNoHeadlines \/ ExitPublishFailed \/ ExitSuccess)

\* C7 amended: every run of main ends in one of those four outcomes or, fifth,
\* with exit status 1 from an uncaught exception (an LLM request failing, a
\* selection reply that is JSON but no object), raised before any webhook POST; absent configuration always ends
\* in the first outcome, a False publish in exit 1, and exit 0 only in success.
C7_FiveOutcomes ==
    /\ pc # "exited" => exitCode = -1
    /\ pc = "exited" =>
          /\ ExitConfig \/ ExitNoHeadlines \/ ExitPublishFailed \/ ExitSuccess
                \/ ExitException
          /\ ConfigMissing => ExitConfig
          /\ pubResult = "False" => ExitPublishFailed
          /\ exitCode = 0 => ExitSuccess
          /\ exitCode \in {0, 1}

\* C7 witness: a run that went through all five phases and ended with status 0
C7_Witness == pc = "exited" /\ ExitSuccess


(***************************************************************************)
(* parse_newsletter                                                        *)
(*                                                                         *)
(* A document is a sequence of lexemes, each a piece of text; the document *)
(* is their concatenation.  The regular expressions of parse_newsletter    *)
(* are evaluated on such documents lexeme by lexeme: the lexemes are       *)
(* chosen so that no match of any of them straddles two lexemes, given     *)
(* that a plain subject line stands at the start of a line and is ended    *)
(* by a line break (WellFormed).                                           *)
(***************************************************************************)
TXT == "Hello"

WS == "\n\n"

NL == "\n"

FN1 == "[^1]:"

FN2 == "[^2]:"

REFB == "**References:**"

REFP == "References:"

DASH == "---"

BSUBJ == "**SUBJECT LINE: Test**"

PSUBJ == "SUBJECT LINE: Plain"

Lexemes == {TXT, WS, FN1, FN2, REFB, REFP, DASH, BSUBJ, PSUBJ}

\* \s matches the lexeme entirely
IsSpace(x) == x \in {WS, NL}

\* the lexeme ends with a line break, so ^ (re.MULTILINE) matches after it
EndsLine(x) == x \in {WS, NL}

\* the least index of s whose lexeme is in S, or 0: re.search for a pattern
\* that matches exactly the lexemes of S
FirstWhere(s, S) ==
    IF \E i \in 1..Len(s) : s[i] \in S
    THEN CHOOSE i \in 1..Len(s) : s[i] \in S /\ \A j \in 1..(i - 1) : s[j] \notin S
    ELSE 0

\* str.strip(): leading and trailing whitespace removed
RECURSIVE LStrip(_)
LStrip(s) == IF s # <<>> /\ IsSpace(Head(s)) THEN LStrip(Tail(s)) ELSE s

RECURSIVE RStrip(_)
RStrip(s) ==
    IF s # <<>> /\ IsSpace(s[Len(s)]) THEN RStrip(SubSeq(s, 1, Len(s) - 1)) ELSE s

Strip(s) == RStrip(LStrip(s))

\* re.search(r'\*\*SUBJECT LINE[:\s]*(.+?)\*\*', content, re.IGNORECASE)
BoldSubjectMatch(doc) == FirstWhere(doc, {BSUBJ})

\* re.search(r'SUBJECT LINE[:\s]*(.+?)[\n\r]', content, re.IGNORECASE): the
\* first plain subject line that a line break follows; group 1 runs from
\* "Plain" to that line break ("." does not match a line break)
PlainSubjectMatch(doc) ==
    LET ok(i) == doc[i] = PSUBJ /\ \E j \in (i + 1)..Len(doc) : EndsLine(doc[j])
    IN IF \E i \in 1..Len(doc) : ok(i)
       THEN CHOOSE i \in 1..Len(doc) : ok(i) /\ \A j \in 1..(i - 1) : ~ok(j)
       ELSE 0

PlainSubjectGroup(doc, i) ==
    LET rest == DropFirst(doc, i)
        stop == FirstWhere(rest, {WS, NL})
    IN <<"Plain">> \o SubSeq(rest, 1, stop - 1)

\* lines 354-358: the bold form first, then the plain form, else the fallback
SubjectOf(doc) ==
    IF BoldSubjectMatch(doc) # 0 THEN <<"Test">>
    ELSE IF PlainSubjectMatch(doc) # 0
         THEN Strip(PlainSubjectGroup(doc, PlainSubjectMatch(doc)))
         ELSE <<"The Gladwell Perspective">>

\* content = re.sub(r'^---[\s\S]*?---\s*', '', content): without re.MULTILINE
\* ^ is the start of the text; the block ends at the next "---" and takes the
\* whitespace after it
StripMetadata(doc) ==
    IF doc # <<>> /\ doc[1] = DASH /\ FirstWhere(Tail(doc), {DASH}) # 0
    THEN LStrip(DropFirst(doc, 1 + FirstWhere(Tail(doc), {DASH})))
    ELSE doc

\* re.search(r'\*\*References?:\*\*|^References?:', content, MULTILINE | IGNORECASE)
\* matches at i
ReferencesAt(content, i) ==
    \/ content[i] = REFB
    \/ content[i] = REFP /\ (i = 1 \/ EndsLine(content[i - 1]))

ReferencesMatch(content) ==
    IF \E i \in 1..Len(content) : ReferencesAt(content, i)
    THEN CHOOSE i \in 1..Len(content) :
            ReferencesAt(content, i) /\ \A j \in 1..(i - 1) : ~ReferencesAt(content, j)
    ELSE 0

\* re.findall(r'\[\^\d+\]:.*?(?=\[\^\d+\]:|$)', main_content, re.DOTALL) is
\* non-empty: some footnote definition marker, of any index, occurs
HasFootnoteSection(main_content) == FirstWhere(main_content, {FN1, FN2}) # 0

\* mutant of ParseNewsletter: content with the subject-line marker cut out
ParseDropsSubject(doc) ==
    LET content == StripMetadata(doc)
        references_match == ReferencesMatch(content)
        main1 == IF references_match # 0
                 THEN SubSeq(content, 1, references_match - 1) ELSE content
        first_footnote == FirstWhere(main1, {FN1})
        NotSubject(x) == x \notin {BSUBJ, PSUBJ}
    IN [subject    |-> SubjectOf(doc),
        content    |-> Strip(SelectSeq(IF first_footnote # 0
                                       THEN SubSeq(main1, 1, first_footnote - 1)
                                       ELSE main1, NotSubject)),
        footnotes  |-> IF first_footnote # 0
                       THEN Strip(DropFirst(main1, first_footnote - 1)) ELSE <<>>,
        references |-> IF references_match # 0
                       THEN Strip(DropFirst(content, references_match - 1)) ELSE <<>>]

\* parse_newsletter(content), lines 352-387
ParseNewsletter(doc) ==
    LET subject == SubjectOf(doc)
        content == StripMetadata(doc)
        footnotes_match == FirstWhere(content, {FN1})
        references_match == ReferencesMatch(content)
        references == IF references_match # 0
                      THEN DropFirst(content, references_match - 1) ELSE <<>>
        main1 == IF references_match # 0
                 THEN SubSeq(content, 1, references_match - 1) ELSE content
        first_footnote == FirstWhere(main1, {FN1})
        split == footnotes_match # 0 /\ HasFootnoteSection(main1) /\ first_footnote # 0
        footnotes == IF split THEN DropFirst(main1, first_footnote - 1) ELSE <<>>
        main_content == IF split THEN SubSeq(main1, 1, first_footnote - 1) ELSE main1
    IN [subject    |-> subject,
        content    |-> Strip(main_content),
        footnotes  |-> Strip(footnotes),
        references |-> Strip(references)]

\* markdown_to_html, line 392:
\* re.sub(r'\*\*SUBJECT LINE[:\s]*.+?\*\*\s*', '', text, flags=re.IGNORECASE)
RECURSIVE StripBoldSubject(_)
StripBoldSubject(text) ==
    IF text = <<>> THEN <<>>
    ELSE IF Head(text) = BSUBJ THEN StripBoldSubject(LStrip(Tail(text)))
    ELSE <<Head(text)>> \o StripBoldSubject(Tail(text))

\* markdown_to_html, line 393:
\* re.sub(r'SUBJECT LINE[:\s]*.+?[\n\r]', '', text, flags=re.IGNORECASE)
\* removes a plain subject line, the rest of its line and one line-break
\* character
RECURSIVE StripPlainSubject(_)
StripPlainSubject(text) ==
    IF text = <<>> THEN <<>>
    ELSE IF Head(text) = PSUBJ /\ FirstWhere(Tail(text), {WS, NL}) # 0
         THEN LET stop == FirstWhere(Tail(text), {WS, NL})
              IN (IF text[stop + 1] = WS THEN <<NL>> ELSE <<>>)
                    \o StripPlainSubject(DropFirst(text, stop + 1))
    ELSE <<Head(text)>> \o StripPlainSubject(Tail(text))

\* the first two rewrites of markdown_to_html
StripSubjectMarker(text) == StripPlainSubject(StripBoldSubject(text))

\* ---- parse_newsletter driven on its own ----
MaxDocLen == 4

\* the example document of the specification
ScenarioDoc ==
    <<BSUBJ, WS, "Hello *world*.", WS, FN1, " a note", WS, REFB, NL, "- Source A">>

\* the lexeme starts, or ends, with the emphasis delimiter "**"
Starred(x) == x \in {BSUBJ, REFB}

\* a plain subject line is line-leading and ended by a line break, and no
\* plain "References:" stands between two "**" (it would read as a bold one)
WellFormed(doc) ==
    \A i \in 1..Len(doc) :
        /\ doc[i] = PSUBJ =>
              /\ i = 1 \/ EndsLine(doc[i - 1])
              /\ i < Len(doc) /\ doc[i + 1] = WS
        /\ doc[i] = REFP =>
              ~(i > 1 /\ i < Len(doc) /\ Starred(doc[i - 1]) /\ Starred(doc[i + 1]))

Documents == {d \in SeqsUpTo(Lexemes, MaxDocLen) : WellFormed(d)} \cup {ScenarioDoc}

Parse ==
    /\ pc = "parse"
    /\ parsed' = ParseNewsletter(raw)
    /\ pc' = "parsed"
    /\ UNCHANGED <<raw, exitCode, queriesDone, llmCalls, selection, runWrites,
                   selectReply, exception, archived>>
    /\ UNCHANGED <<envVars, pubVars, historyVars, scoutVars, htmlVars>>

(***************************************************************************)
(* SpecParse: parse_newsletter applied to every bounded document.          *)
(***************************************************************************)
InitParse ==
    /\ raw \in Documents
    /\ parsed = NoParse
    /\ pc = "parse"
    /\ exitCode = -1
    /\ queriesDone = 0
    /\ llmCalls = <<>>
    /\ selection = NoSelection
    /\ runWrites = <<>>
    /\ selectReply = NoReply
    /\ exception = "none"
    /\ archived = FALSE
    /\ EnvDefault /\ PubDefault /\ HistoryDefault /\ ScoutDefault /\ HtmlDefault

NextParse == Parse

SpecParse == InitParse /\ [][NextParse]_vars


(***************************************************************************)
(* Properties of parse_newsletter (SpecParse)                              *)
(***************************************************************************)
\* the non-whitespace lexemes of a text, in order
NonSpace(text) == LET Inked(x) == ~IsSpace(x) IN SelectSeq(text, Inked)

\* C9 as claimed: after the leading metadata block is removed, references is
\* everything from the first References heading on; in the text before it,
\* footnotes is everything from the first footnote definition marker of any
\* index on and content everything before that marker; the three regions
\* together, whitespace aside, are the document.
C9_RegionSplit ==
    pc = "parsed" =>
        LET doc == StripMetadata(raw)
            r == ReferencesMatch(doc)
            before == IF r # 0 THEN SubSeq(doc, 1, r - 1) ELSE doc
            f == FirstWhere(before, {FN1, FN2})
        IN /\ parsed.references = Strip(IF r # 0 THEN DropFirst(doc, r - 1) ELSE <<>>)
           /\ parsed.footnotes = Strip(IF f # 0 THEN DropFirst(before, f - 1) ELSE <<>>)
           /\ parsed.content = Strip(IF f # 0 THEN SubSeq(before, 1, f - 1) ELSE before)
           /\ NonSpace(parsed.content \o parsed.footnotes \o parsed.references)
                 = NonSpace(doc)

\* the document begins with a well-formed subject-line marker followed by body
\* text, and holds no other subject-line marker
BeginsWithSubject(doc) ==
    /\ Len(doc) >= 3
    /\ doc[1] \in {BSUBJ, PSUBJ}
    /\ doc[2] = WS
    /\ doc[3] \in {TXT, "Hello *world*."}
    /\ \A i \in 2..Len(doc) : doc[i] \notin {BSUBJ, PSUBJ}

\* the text a subject-line marker captures
CapturedBy(marker) == IF marker = BSUBJ THEN <<"Test">> ELSE <<"Plain">>

\* C10 as claimed: for a document that begins with a subject-line marker
\* followed by body text, subject is the marker's captured text and content
\* holds the body text only, without the marker; the scenario document's
\* content is exactly "Hello *world*.".
C10_ContentWithoutSubject ==
    pc = "parsed" =>
        /\ BeginsWithSubject(raw) =>
              /\ parsed.subject = CapturedBy(raw[1])
              /\ \A i \in 1..Len(parsed.content) :
                    parsed.content[i] \notin {BSUBJ, PSUBJ}
        /\ raw = ScenarioDoc => parsed.content = <<"Hello *world*.">>

\* C10 amended: for such a document subject is the marker's captured text and
\* content begins with the marker itself, followed by the body text
\* (parse_newsletter does not remove it); the removal in markdown_to_html is
\* what takes the marker out, leaving the body text; the scenario document's
\* content is "**SUBJECT LINE: Test**\n\nHello *world*.", its other fields as
\* the specification gives them.
C10_ContentKeepsSubject ==
    pc = "parsed" =>
        /\ BeginsWithSubject(raw) =>
              /\ parsed.subject = CapturedBy(raw[1])
              /\ Len(parsed.content) >= 3
              /\ SubSeq(parsed.content, 1, 3) = <<raw[1], WS, raw[3]>>
              /\ LET html == StripSubjectMarker(parsed.content)
                 IN /\ \A i \in 1..Len(html) : html[i] \notin {BSUBJ, PSUBJ}
                    /\ NonSpace(html) = NonSpace(DropFirst(parsed.content, 1))
        /\ raw = ScenarioDoc =>
              parsed = [subject    |-> <<"Test">>,
                        content    |-> <<BSUBJ, WS, "Hello *world*.">>,
                        footnotes  |-> <<FN1, " a note">>,
                        references |-> <<REFB, NL, "- Source A">>]

\* C10 witness: the scenario document has been parsed
C10_Witness ==
    /\ pc = "parsed"
    /\ raw = ScenarioDoc
    /\ parsed.subject = <<"Test">>
    /\ parsed.content[1] = BSUBJ


(***************************************************************************)
(* markdown_to_html                                                        *)
(*                                                                         *)
(* A text is a sequence of symbols.  "*", "-" and "\n" are single          *)
(* characters, "\n\n" is two line breaks, and every other symbol is a      *)
(* piece of text no rewrite looks into.  No symbol begins with "#" or      *)
(* with a digit, so the header rewrite (line 395) and the numbered-list    *)
(* rewrite (line 398) find nothing and are left out of the composition.    *)
(***************************************************************************)
STAR == "*"

DASH1 == "-"

\* a footnote reference, [^1] not followed by a colon
REF == "[^1]"

SUP == "<sup>1</sup>"

\* line 400: the section-break fragment (here without its style attribute)
section_break_html == "<div>...</div>"

EM_O == "<em>"

EM_C == "</em>"

ST_O == "<strong>"

ST_C == "</strong>"

P_O == "<p>"

P_C == "</p>"

\* the text character by character as far as line breaks go: "\n\n" is two "\n"
RECURSIVE Expand(_)
Expand(text) ==
    IF text = <<>> THEN <<>>
    ELSE (IF Head(text) = WS THEN <<NL, NL>> ELSE <<Head(text)>>) \o Expand(Tail(text))

\* greedy \s* from position p: the position of the first symbol that is not
\* a line break, Len(s) + 1 if there is none
SkipSpace(s, p) ==
    CHOOSE q \in p..(Len(s) + 1) :
        /\ \A j \in p..(q - 1) : s[j] = NL
        /\ IF q = Len(s) + 1 THEN TRUE ELSE s[q] # NL

\* greedy sym* from position p
RunEnd(s, p, sym) ==
    CHOOSE q \in p..(Len(s) + 1) :
        /\ \A j \in p..(q - 1) : s[j] = sym
        /\ IF q = Len(s) + 1 THEN TRUE ELSE s[q] # sym

\* ^ under re.MULTILINE holds before position p
AtLineStart(s, p) == IF p = 1 THEN TRUE ELSE s[p - 1] = NL

\* line 397: r'^\s*[-•]\s*' matches from p; the position after the match, or 0
BulletEnd(s, p) ==
    LET q == SkipSpace(s, p)
    IN IF q > Len(s) THEN 0
       ELSE IF s[q] = DASH1 THEN SkipSpace(s, q + 1) ELSE 0

\* text = re.sub(r'^\s*[-•]\s*', '', text, flags=re.MULTILINE), from p on
RECURSIVE StripBullets(_, _)
StripBullets(s, p) ==
    IF p > Len(s) THEN <<>>
    ELSE IF AtLineStart(s, p) /\ BulletEnd(s, p) # 0
         THEN StripBullets(s, BulletEnd(s, p))
         ELSE <<s[p]>> \o StripBullets(s, p + 1)

\* r'^\s*X\s*$' matches from p, X being a run of lo to hi symbols sym (hi = 0:
\* no upper limit); the position after the match, or 0.  The trailing \s*
\* takes every line break when the text ends with them, and otherwise stops
\* before the last one, where $ holds.
LineRuleEnd(s, p, sym, lo, hi) ==
    LET q == SkipSpace(s, p)
        r == RunEnd(s, q, sym)
        t == SkipSpace(s, r)
    IN IF r - q < lo \/ (hi # 0 /\ r - q > hi) THEN 0
       ELSE IF t = Len(s) + 1 THEN t
       ELSE IF t > r THEN t - 1
       ELSE 0

\* text = re.sub(r'^\s*X\s*$', section_break_html, text, flags=re.MULTILINE)
RECURSIVE SectionBreaks(_, _, _, _, _)
SectionBreaks(s, p, sym, lo, hi) ==
    IF p > Len(s) THEN <<>>
    ELSE IF AtLineStart(s, p) /\ LineRuleEnd(s, p, sym, lo, hi) # 0
         THEN <<section_break_html>>
                 \o SectionBreaks(s, LineRuleEnd(s, p, sym, lo, hi), sym, lo, hi)
         ELSE <<s[p]>> \o SectionBreaks(s, p + 1, sym, lo, hi)

\* r'\*\*(.+?)\*\*' matches from p: the position of the closing "**", or 0.
\* "." matches anything but a line break, and "+?" takes as little as it can.
StrongClose(s, p) ==
    LET ok(c) == /\ s[c] = STAR /\ s[c + 1] = STAR
                 /\ \A j \in (p + 2)..(c - 1) : s[j] # NL
    IN IF p + 1 > Len(s) THEN 0
       ELSE IF s[p] # STAR \/ s[p + 1] # STAR THEN 0
       ELSE IF \E c \in (p + 3)..(Len(s) - 1) : ok(c)
            THEN CHOOSE c \in (p + 3)..(Len(s) - 1) :
                    ok(c) /\ \A d \in (p + 3)..(c - 1) : ~ok(d)
            ELSE 0

\* line 405: text = re.sub(r'\*\*(.+?)\*\*', r'<strong>\1</strong>', text)
RECURSIVE Strong(_, _)
Strong(s, p) ==
    IF p > Len(s) THEN <<>>
    ELSE IF StrongClose(s, p) # 0
         THEN <<ST_O>> \o SubSeq(s, p + 2, StrongClose(s, p) - 1) \o <<ST_C>>
                 \o Strong(s, StrongClose(s, p) + 2)
         ELSE <<s[p]>> \o Strong(s, p + 1)

\* r'\*(.+?)\*' matches from p: the position of the closing "*", or 0
EmClose(s, p) ==
    LET ok(c) == s[c] = STAR /\ \A j \in (p + 1)..(c - 1) : s[j] # NL
    IN IF s[p] # STAR THEN 0
       ELSE IF \E c \in (p + 2)..Len(s) : ok(c)
            THEN CHOOSE c \in (p + 2)..Len(s) :
                    ok(c) /\ \A d \in (p + 2)..(c - 1) : ~ok(d)
            ELSE 0

\* line 406: text = re.sub(r'\*(.+?)\*', r'<em>\1</em>', text)
RECURSIVE Emphasis(_, _)
Emphasis(s, p) ==
    IF p > Len(s) THEN <<>>
    ELSE IF EmClose(s, p) # 0
         THEN <<EM_O>> \o SubSeq(s, p + 1, EmClose(s, p) - 1) \o <<EM_C>>
                 \o Emphasis(s, EmClose(s, p) + 1)
         ELSE <<s[p]>> \o Emphasis(s, p + 1)

\* line 407: text = re.sub(r'\[\^(\d+)\](?!:)', r'<sup>\1</sup>', text)
\* (a definition marker "[^1]:" is another symbol and stays)
Superscripts(s) == [i \in 1..Len(s) |-> IF s[i] = REF THEN SUP ELSE s[i]]

\* the position of the first "\n\n" of s, or 0
ParagraphBreak(s) ==
    LET ok(i) == s[i] = NL /\ s[i + 1] = NL
    IN IF \E i \in 1..(Len(s) - 1) : ok(i)
       THEN CHOOSE i \in 1..(Len(s) - 1) : ok(i) /\ \A j \in 1..(i - 1) : ~ok(j)
       ELSE 0

\* lines 411-417: one piece of text.split('\n\n')
Paragraph(piece) ==
    LET p == Strip(piece)
    IN IF p = <<>> THEN <<>>
       ELSE IF Head(p) = section_break_html THEN p
       ELSE <<P_O>> \o p \o <<P_C>>

\* lines 409-418: split at "\n\n", wrap, join without separator
RECURSIVE Paragraphs(_)
Paragraphs(s) ==
    IF ParagraphBreak(s) = 0 THEN Paragraph(s)
    ELSE Paragraph(SubSeq(s, 1, ParagraphBreak(s) - 1))
            \o Paragraphs(DropFirst(s, ParagraphBreak(s) + 1))

\* markdown_to_html(text), lines 390-419
MarkdownToHtml(text) ==
    LET t1 == Expand(StripSubjectMarker(text))
        t2 == StripBullets(t1, 1)
        t3 == SectionBreaks(t2, 1, STAR, 1, 1)
        t4 == SectionBreaks(t3, 1, DASH1, 3, 0)
        t5 == SectionBreaks(t4, 1, STAR, 3, 0)
        t6 == Strong(t5, 1)
        t7 == Emphasis(t6, 1)
        t8 == Superscripts(t7)
    IN Paragraphs(t8)

\* ---- markdown_to_html driven on its own ----
MaxTextLen == 5

MdSymbols == {TXT, STAR, DASH1, NL, WS, REF}

MarkdownTexts == SeqsUpTo(MdSymbols, MaxTextLen)

\* markdown_to_html(text)
Convert ==
    /\ pc = "convert"
    /\ converted' = MarkdownToHtml(markdown)
    /\ pc' = "converted"
    /\ UNCHANGED <<raw, parsed, template, built, markdown, reconverted>>
    /\ UNCHANGED <<exitCode, queriesDone, llmCalls, selection, runWrites,
                   selectReply, exception, archived>>
    /\ UNCHANGED <<envVars, pubVars, historyVars, scoutVars>>

\* markdown_to_html run again, on its own output
Reconvert ==
    /\ pc = "converted"
    /\ reconverted' = MarkdownToHtml(converted)
    /\ pc' = "reconverted"
    /\ UNCHANGED <<raw, parsed, template, built, markdown, converted>>
    /\ UNCHANGED <<exitCode, queriesDone, llmCalls, selection, runWrites,
                   selectReply, exception, archived>>
    /\ UNCHANGED <<envVars, pubVars, historyVars, scoutVars>>

(***************************************************************************)
(* SpecMarkdown: markdown_to_html applied to every bounded text, and then  *)
(* to its own output.                                                      *)
(***************************************************************************)
InitMarkdown ==
    /\ markdown \in MarkdownTexts
    /\ converted = <<>>
    /\ reconverted = <<>>
    /\ template = <<>>
    /\ built = NoEmail
    /\ pc = "convert"
    /\ exitCode = -1
    /\ queriesDone = 0
    /\ llmCalls = <<>>
    /\ selection = NoSelection
    /\ runWrites = <<>>
    /\ selectReply = NoReply
    /\ exception = "none"
    /\ archived = FALSE
    /\ EnvDefault /\ PubDefault /\ HistoryDefault /\ ScoutDefault /\ ParseDefault

NextMarkdown ==
    \/ Convert
    \/ Reconvert

SpecMarkdown == InitMarkdown /\ [][NextMarkdown]_vars


(***************************************************************************)
(* build_html_email                                                        *)
(*                                                                         *)
(* The template and the email are sequences of pieces of text; a           *)
(* placeholder is one piece, and str.replace exchanges every piece equal   *)
(* to it for the pieces of the value.                                      *)
(***************************************************************************)
PH_SUBJECT == "{{SUBJECT}}"

PH_DATE == "{{DATE}}"

PH_CONTENT == "{{CONTENT}}"

PH_FOOTNOTES == "{{FOOTNOTES}}"

PH_REFERENCES == "{{REFERENCES}}"

PH_PERSONAL_NOTE == "{{PERSONAL_NOTE}}"

Placeholders ==
    {PH_SUBJECT, PH_DATE, PH_CONTENT, PH_FOOTNOTES, PH_REFERENCES, PH_PERSONAL_NOTE}

\* template text that is no placeholder
HR == "<hr>"

\* line 449: datetime.now().strftime("%B %d, %Y")
today == "<today>"

\* lines 442-447: the fixed closing note (it holds no placeholder)
personal_note == "<personal note>"

NO_NOTES == "<p>No notes for this issue.</p>"

NO_REFERENCES == "<p>No references.</p>"

\* the text of a footnote and a line of the references, as in the example
\* document of the specification
NOTE == " a note"

SOURCE == "- Source A"

\* str.strip() of a piece: its blank characters at the front removed
TrimLeft(x) == IF x = NOTE THEN "a note" ELSE x

\* str.strip() of a text whose last piece does not end with a blank
TextStrip(s) ==
    LET t == Strip(s)
    IN IF t = <<>> THEN <<>> ELSE <<TrimLeft(Head(t))>> \o Tail(t)

\* line 433: '<p class="footnote"><span class="footnote-marker">[num]</span> '
FootnoteOpen(marker) ==
    IF marker = FN1 THEN "<p class=footnote>[1] " ELSE "<p class=footnote>[2] "

\* the position of the first footnote definition marker from p on, else
\* Len(s) + 1
NextMarker(s, p) ==
    CHOOSE q \in p..(Len(s) + 1) :
        /\ \A j \in p..(q - 1) : s[j] \notin {FN1, FN2}
        /\ IF q = Len(s) + 1 THEN TRUE ELSE s[q] \in {FN1, FN2}

\* lines 431-433: re.findall(r'\[\^(\d+)\]:\s*(.+?)(?=\[\^\d+\]:|$)', ...,
\* re.DOTALL) from p on and the paragraph made of each match.  After the
\* marker and the blanks the text takes at least one character, so a marker
\* that directly follows belongs to the text, and a marker with nothing
\* behind it gives no match.
RECURSIVE FootnoteEntries(_, _)
FootnoteEntries(s, p) ==
    IF p > Len(s) THEN <<>>
    ELSE IF s[p] \notin {FN1, FN2} THEN FootnoteEntries(s, p + 1)
    ELSE LET q == SkipSpace(s, p + 1)
             e == NextMarker(s, q + 1)
         IN IF q > Len(s) THEN <<>>
            ELSE <<FootnoteOpen(s[p])>> \o TextStrip(SubSeq(s, q, e - 1)) \o <<P_C>>
                    \o FootnoteEntries(s, e)

\* lines 429-433
FootnotesHtml(footnotes) == FootnoteEntries(Expand(footnotes), 1)

\* line.lstrip('- ')
RECURSIVE LStripDashes(_)
LStripDashes(line) ==
    IF line = <<>> THEN <<>>
    ELSE IF Head(line) \in {DASH1, DASH} THEN LStripDashes(Tail(line))
    ELSE IF Head(line) = SOURCE THEN <<"Source A">> \o Tail(line)
    ELSE <<TrimLeft(Head(line))>> \o Tail(line)

\* lines 438-439: one line of refs.split('\n') as a list item, if it is kept
ReferenceItem(line) ==
    IF TextStrip(line) = <<>> \/ TextStrip(line) = <<DASH1>> THEN <<>>
    ELSE <<"<li>">> \o LStripDashes(TextStrip(line)) \o <<"</li>">>

RECURSIVE ReferenceItems(_)
ReferenceItems(refs) ==
    IF FirstWhere(refs, {NL}) = 0 THEN ReferenceItem(refs)
    ELSE ReferenceItem(SubSeq(refs, 1, FirstWhere(refs, {NL}) - 1))
            \o ReferenceItems(DropFirst(refs, FirstWhere(refs, {NL})))

\* lines 435-439
ReferencesHtml(references) ==
    LET NotHeading(x) == x \notin {REFB, REFP}
        refs == TextStrip(SelectSeq(references, NotHeading))
    IN IF references = <<>> THEN <<>>
       ELSE <<"<ul>">> \o ReferenceItems(Expand(refs)) \o <<"</ul>">>

\* html.replace(old, new)
RECURSIVE Replace(_, _, _)
Replace(html, old, new) ==
    IF html = <<>> THEN <<>>
    ELSE (IF Head(html) = old THEN new ELSE <<Head(html)>>)
            \o Replace(Tail(html), old, new)

\* the values build_html_email computes for the placeholders, lines 424-449
ContentValue(newsletter) == MarkdownToHtml(ParseNewsletter(newsletter).content)

FootnotesValue(newsletter) ==
    LET footnotes_html == FootnotesHtml(ParseNewsletter(newsletter).footnotes)
    IN IF footnotes_html # <<>> THEN footnotes_html ELSE <<NO_NOTES>>

ReferencesValue(newsletter) ==
    LET references_html == ReferencesHtml(ParseNewsletter(newsletter).references)
    IN IF references_html # <<>> THEN references_html ELSE <<NO_REFERENCES>>

\* build_html_email(newsletter), lines 422-457, for the template tmpl
BuildHtmlEmail(newsletter, tmpl) ==
    LET subject == ParseNewsletter(newsletter).subject
        h1 == Replace(tmpl, PH_SUBJECT, subject)
        h2 == Replace(h1, PH_DATE, <<today>>)
        h3 == Replace(h2, PH_CONTENT, ContentValue(newsletter))
        h4 == Replace(h3, PH_FOOTNOTES, FootnotesValue(newsletter))
        h5 == Replace(h4, PH_REFERENCES, ReferencesValue(newsletter))
        h6 == Replace(h5, PH_PERSONAL_NOTE, <<personal_note>>)
    IN [subject |-> subject, html |-> h6]

\* ---- build_html_email driven on its own ----
MaxTemplateLen == 2

Templates == SeqsUpTo(Placeholders \cup {HR}, MaxTemplateLen)

\* newsletters: a subject line (none, bold, or plain with more text on its
\* line), a body, footnotes and references, some holding placeholder text
SubjectParts == {<<>>, <<BSUBJ, WS>>, <<PSUBJ, PH_CONTENT, WS>>}

BodyParts ==
    {<<TXT>>, <<TXT, STAR, TXT, STAR, REF>>, <<TXT, PH_PERSONAL_NOTE>>, <<PH_CONTENT>>}

FootnoteParts ==
    {<<>>, <<WS, FN1, NOTE>>, <<WS, FN1, NOTE, NL, FN2, PH_REFERENCES>>,
     <<WS, FN1, PH_PERSONAL_NOTE>>}

ReferenceParts ==
    {<<>>, <<WS, REFB, NL, SOURCE>>, <<WS, REFB, NL, SOURCE, NL, PH_PERSONAL_NOTE>>}

Newsletters ==
    {s \o b \o f \o r : s \in SubjectParts, b \in BodyParts,
                        f \in FootnoteParts, r \in ReferenceParts}

Build ==
    /\ pc = "build"
    /\ parsed' = ParseNewsletter(raw)
    /\ built' = BuildHtmlEmail(raw, template)
    /\ pc' = "built"
    /\ UNCHANGED <<raw, template, markdown, converted, reconverted>>
    /\ UNCHANGED <<exitCode, queriesDone, llmCalls, selection, runWrites,
                   selectReply, exception, archived>>
    /\ UNCHANGED <<envVars, pubVars, historyVars, scoutVars>>

(***************************************************************************)
(* SpecBuild: build_html_email applied to every bounded newsletter and     *)
(* template.                                                               *)
(***************************************************************************)
InitBuild ==
    /\ raw \in Newsletters
    /\ template \in Templates
    /\ parsed = NoParse
    /\ built = NoEmail
    /\ markdown = <<>>
    /\ converted = <<>>
    /\ reconverted = <<>>
    /\ pc = "build"
    /\ exitCode = -1
    /\ queriesDone = 0
    /\ llmCalls = <<>>
    /\ selection = NoSelection
    /\ runWrites = <<>>
    /\ selectReply = NoReply
    /\ exception = "none"
    /\ archived = FALSE
    /\ EnvDefault /\ PubDefault /\ HistoryDefault /\ ScoutDefault

NextBuild == Build

SpecBuild == InitBuild /\ [][NextBuild]_vars


(***************************************************************************)
(* Properties of build_html_email (SpecBuild)                              *)
(***************************************************************************)
\* the value computed for a placeholder
ValueOf(placeholder, newsletter) ==
    CASE placeholder = PH_SUBJECT       -> ParseNewsletter(newsletter).subject
      [] placeholder = PH_DATE          -> <<today>>
      [] placeholder = PH_CONTENT       -> ContentValue(newsletter)
      [] placeholder = PH_FOOTNOTES     -> FootnotesValue(newsletter)
      [] placeholder = PH_REFERENCES    -> ReferencesValue(newsletter)
      [] placeholder = PH_PERSONAL_NOTE -> <<personal_note>>

\* the template with every placeholder occurrence exchanged for its value,
\* the values themselves left as they are
RECURSIVE LiteralSubstitution(_, _)
LiteralSubstitution(tmpl, newsletter) ==
    IF tmpl = <<>> THEN <<>>
    ELSE (IF Head(tmpl) \in Placeholders
          THEN ValueOf(Head(tmpl), newsletter) ELSE <<Head(tmpl)>>)
            \o LiteralSubstitution(Tail(tmpl), newsletter)

\* C11 as claimed: placeholder substitution in build_html_email is literal:
\* the email is the template with each occurrence (zero, one or many) of each
\* placeholder replaced by its value, and no text inserted as a value is
\* replaced by a later substitution, so placeholder text inside the subject,
\* content, footnotes or references appears unchanged in the final HTML.
C11_LiteralSubstitution ==
    pc = "built" => built.html = LiteralSubstitution(template, raw)


(***************************************************************************)
(* Properties of markdown_to_html (SpecMarkdown)                           *)
(***************************************************************************)
\* opening tags less closing tags of emphasis within h[p..e]
RECURSIVE Depth(_, _, _)
Depth(h, p, e) ==
    IF p > e THEN 0
    ELSE Depth(h, p + 1, e) + (IF h[p] \in {EM_O, ST_O} THEN 1
                               ELSE IF h[p] \in {EM_C, ST_C} THEN -1 ELSE 0)

\* the position where the emphasis span opened at p is closed
SpanEnd(h, p) ==
    IF \E e \in p..Len(h) : Depth(h, p, e) = 0
    THEN CHOOSE e \in p..Len(h) :
            Depth(h, p, e) = 0 /\ \A d \in p..(e - 1) : Depth(h, p, d) # 0
    ELSE Len(h)

\* the converted elements of h from p on, outermost first: every emphasis
\* span from its opening to its closing tag, every section-break fragment
\* and every superscript that lies in no emphasis span
RECURSIVE Elements(_, _)
Elements(h, p) ==
    IF p > Len(h) THEN <<>>
    ELSE IF h[p] \in {SUP, section_break_html}
         THEN <<(<<h[p]>>)>> \o Elements(h, p + 1)
    ELSE IF h[p] \in {EM_O, ST_O}
         THEN <<SubSeq(h, p, SpanEnd(h, p))>> \o Elements(h, SpanEnd(h, p) + 1)
    ELSE Elements(h, p + 1)

\* a is b with some members left out
RECURSIVE IsSubseq(_, _)
IsSubseq(a, b) ==
    IF a = <<>> THEN TRUE
    ELSE IF b = <<>> THEN FALSE
    ELSE IF Head(a) = Head(b) THEN IsSubseq(Tail(a), Tail(b))
    ELSE IsSubseq(a, Tail(b))

\* C12 as claimed: markdown_to_html is idempotent on its converted elements:
\* after markdown_to_html is applied to its own output, every emphasis span,
\* section-break fragment and superscript of the first output is still there
\* exactly as it was, in order, and none of them has been wrapped in a new
\* span, stripped or rewritten.
C12_ConvertedElementsKept ==
    pc = "reconverted" => IsSubseq(Elements(converted, 1), Elements(reconverted, 1))

=============================================================================
